---------------------------- MODULE Spec2Model ----------------------------
(***************************************************************************)
(* Model of the alert-triage pipeline of app/main.py: one invocation of    *)
(* alertmanager_webhook, from the parsed alert to the HTTP response, with  *)
(* the three evidence collectors of app/collectors.py, the analysis call   *)
(* of app/triage.py and the three publishers (app/storage.py,              *)
(* app/github_issues.py, app/slack.py).                                    *)
(*                                                                         *)
(* Python values are modelled as follows.  A str is a TLA+ string, None is *)
(* the value None below, a dict is a function whose domain is its key set. *)
(* A payload returned by a backend is an opaque string.  Every outbound    *)
(* call is one step whose outcome (return or raise) is chosen by the       *)
(* environment.  An exception nobody catches ends the handler: the         *)
(* framework answers 500.                                                  *)
(***************************************************************************)
EXTENDS Naturals, Sequences, FiniteSets, TLC

\* The largest number of containers a pod read lists (p.spec.containers).
MaxContainers == 2

None == "<None>"

\* Python truthiness of an Optional[str]: None and "" are falsy.
Truthy(v) == v # None /\ v # ""

\* Python truthiness of a dict: the empty dict is falsy.
TruthyDict(d) == DOMAIN d # {}

EmptyDict == [k \in {} |-> None]

\* d[k] = v
Put(d, k, v) == [x \in (DOMAIN d) \cup {k} |-> IF x = k THEN v ELSE d[x]]

\* Values an environment variable can have at import: unset/empty, or set.
EnvValues == {"", "set"}

\* Values of a target coordinate after _extract_targets_from_alert:
\* label missing (None), label present but empty, label present.
CoordValues == {None, "", "x"}

\* uuid.uuid4() values.
UUIDs == {"uuid-a", "uuid-b"}

\* _now_utc_iso()
CreatedAt == "2026-01-01T00:00:00Z"

Adapters == {"k8s", "prometheus", "loki"}

VARIABLES
    \* module configuration (main.py 24-34), fixed at import
    PROMETHEUS_URL, LOKI_URL, S3_BUCKET, GITHUB_TOKEN, GITHUB_REPO,
    SLACK_WEBHOOK_URL,
    \* kubernetes.client.Configuration's process-wide default, which
    \* load_incluster_config / load_kube_config set
    k8s_default_configuration,
    \* the body of the request
    body,
    \* position of the handler (and of the collector it is awaiting)
    pc,
    \* locals of alertmanager_webhook
    incident_id, namespace, pod, node,
    k8s_evidence, prom_evidence, loki_evidence, evidence_bundle,
    triage_md, s3_urls, issue_url,
    \* local of bedrock_triage_markdown: payload["content"]
    reply,
    \* locals of _build_prompt: json.dumps(evidence) and safe
    serialized, safe,
    \* locals of k8s_collect_evidence; pod_containers is p.spec.containers
    evidence, containers, pod_containers, logs,
    \* local of prom_collect_metrics
    out,
    \* the HTTP response of the invocation
    response,
    \* the function whose exception reached the framework ("" if none)
    raised_from,
    \* observation of the invocation: which collectors were awaited and how
    \* they ended, the outbound calls in the order issued, the aspects whose
    \* call raised, and the evidence handed to the analysis backend
    adapter, calls, failed, analysed,
    \* the world: objects in the bucket, issues in the tracker, chat posts
    s3_store, github_issues, slack_posts,
    \* another invocation of the handler in the same process: its position
    \* and its incident id
    other_pc, other_incident_id

\* The serialized bundle and the evidence text of the prompt; the other
\* invocation of the handler.
prompt_vars == <<serialized, safe>>
other_vars == <<other_pc, other_incident_id>>
outside_vars == <<prompt_vars, other_vars>>

config_vars == <<PROMETHEUS_URL, LOKI_URL, S3_BUCKET, GITHUB_TOKEN,
                 GITHUB_REPO, SLACK_WEBHOOK_URL>>
handler_vars == <<incident_id, body, namespace, pod, node, k8s_evidence,
                  prom_evidence, loki_evidence, evidence_bundle, triage_md, reply,
                  s3_urls, issue_url>>
k8s_vars == <<evidence, containers, pod_containers, logs>>
world_vars == <<s3_store, github_issues, slack_posts>>
vars == <<config_vars, outside_vars, k8s_default_configuration, pc,
          handler_vars, k8s_vars, out, response,
          raised_from, adapter, calls, failed, analysed, world_vars>>

\* A text given by the characters from..to-1 of the canonical serialization
\* of the bundle, followed by the literal suffix.  NoText is the empty text.
NoText == [from |-> 0, to |-> 0, suffix |-> ""]

NoResponse == [status_code |-> 0]
\* An unhandled exception: the framework's 500 response.
ServerError == [status_code |-> 500]

Init ==
    /\ PROMETHEUS_URL \in EnvValues
    /\ LOKI_URL \in EnvValues
    /\ S3_BUCKET \in EnvValues
    /\ GITHUB_TOKEN \in EnvValues
    /\ GITHUB_REPO \in EnvValues
    /\ SLACK_WEBHOOK_URL \in EnvValues
    /\ k8s_default_configuration = "unset"
    /\ body = "none"
    /\ reply = <<>>
    /\ serialized = NoText
    /\ safe = NoText
    /\ pod_containers = <<>>
    /\ other_pc = "idle"
    /\ other_incident_id = None
    /\ pc = "intake"
    /\ incident_id = None
    /\ namespace = None
    /\ pod = None
    /\ node = None
    /\ k8s_evidence = EmptyDict
    /\ prom_evidence = EmptyDict
    /\ loki_evidence = EmptyDict
    /\ evidence_bundle = EmptyDict
    /\ triage_md = None
    /\ s3_urls = EmptyDict
    /\ issue_url = None
    /\ evidence = EmptyDict
    /\ containers = <<>>
    /\ logs = EmptyDict
    /\ out = EmptyDict
    /\ response = NoResponse
    /\ raised_from = ""
    /\ adapter = [a \in Adapters |-> "not_started"]
    /\ calls = <<>>
    /\ failed = {}
    /\ analysed = EmptyDict
    /\ s3_store = EmptyDict
    /\ github_issues = {}
    /\ slack_posts = {}

\* An exception leaves function f and nothing in the handler catches it.
Raise(f) ==
    /\ pc' = "failed"
    /\ raised_from' = f
    /\ response' = ServerError

\* What the body of a request can be: no body, a body that is not JSON, a
\* JSON value that is not an object, an object without (or with empty or
\* null) alerts, an object with alerts.
BodyKinds == {"missing", "not_json", "not_object", "no_alerts", "alerts"}

\* The handler up to the first collector (main.py 77-91).  req.json() raises
\* on a missing or non-JSON body and body.get on a value that is no object;
\* nothing catches either.  Without alerts primary is {} and every
\* coordinate is None.  The incident id is a fresh uuid4.
Intake ==
    /\ pc = "intake"
    /\ \E b \in BodyKinds :
        /\ body' = b
        /\ IF b \in {"missing", "not_json", "not_object"}
           THEN /\ Raise("alertmanager_webhook")
                /\ UNCHANGED <<incident_id, namespace, pod, node>>
           ELSE /\ incident_id' \in UUIDs \ {other_incident_id}
                /\ IF b = "no_alerts"
                   THEN namespace' = None /\ pod' = None /\ node' = None
                   ELSE /\ namespace' \in CoordValues
                        /\ pod' \in CoordValues
                        /\ node' \in CoordValues
                /\ pc' = "k8s_load"
                /\ UNCHANGED <<response, raised_from>>
    /\ UNCHANGED <<config_vars, outside_vars, k8s_default_configuration,
                   k8s_evidence, prom_evidence, loki_evidence,
                   evidence_bundle, triage_md, reply, s3_urls, issue_url,
                   k8s_vars, out, adapter, calls, failed, analysed,
                   world_vars>>

---------------------------------------------------------------------------
(* k8s_collect_evidence (collectors.py 21-107).  Its API calls are blocking *)
(* calls made one after the other; each aspect sits in its own try/except.  *)

\* What stays as it is while the cluster-state collector runs.
k8s_frame == <<config_vars, outside_vars, handler_vars, out, analysed,
               world_vars>>

\* _load_k8s and the construction of the API clients.  load_kube_config is
\* the fallback of load_incluster_config; when it raises too, the exception
\* leaves k8s_collect_evidence, which has no try around _load_k8s.  The
\* loader that succeeds installs a new default Configuration for the whole
\* process; CoreV1Api() takes the default.
K8sLoad ==
    /\ pc = "k8s_load"
    /\ \E ok \in BOOLEAN :
        IF ok
        THEN /\ k8s_default_configuration' = "set_by_this_invocation"
             /\ evidence' = [k \in {"namespace", "pod", "node"} |->
                               CASE k = "namespace" -> namespace
                                 [] k = "pod" -> pod
                                 [] k = "node" -> node]
             /\ adapter' = [adapter EXCEPT !["k8s"] = "running"]
             /\ pc' = "k8s_node"
             /\ UNCHANGED <<response, raised_from, failed>>
        ELSE /\ Raise("k8s_collect_evidence")
             /\ adapter' = [adapter EXCEPT !["k8s"] = "raised"]
             /\ failed' = failed \cup {"k8s_client_setup"}
             /\ UNCHANGED <<evidence, k8s_default_configuration>>
    /\ UNCHANGED <<k8s_frame, containers, pod_containers, logs, calls>>

\* if node:
K8sNodeGiven == Truthy(node)

\* if namespace and pod:
K8sPodGiven == Truthy(namespace) /\ Truthy(pod)

\* One aspect of the cluster-state collector: the call is issued, and its
\* result is stored under key, or the message of its exception under
\* key_error.
K8sAspect(call, key, payload) ==
    /\ calls' = Append(calls, call)
    /\ \E ok \in BOOLEAN :
        IF ok
        THEN /\ evidence' = Put(evidence, key, payload)
             /\ UNCHANGED failed
        ELSE /\ evidence' = Put(evidence, key \o "_error", "<exception>")
             /\ failed' = failed \cup {key}

\* Node details (if node provided)
K8sNode ==
    /\ pc = "k8s_node"
    /\ IF K8sNodeGiven
       THEN K8sAspect("read_node", "node_info", "<node>")
       ELSE UNCHANGED <<evidence, calls, failed>>
    /\ pc' = "k8s_pod"
    /\ UNCHANGED <<k8s_frame, k8s_default_configuration, containers,
                   pod_containers, logs, response, raised_from, adapter>>

\* K8sPod with one try around everything about the pod: when the pod read
\* raises, events and logs are not attempted.
K8sPodAbortsOnError ==
    /\ pc = "k8s_pod"
    /\ IF K8sPodGiven
       THEN /\ calls' = Append(calls, "read_namespaced_pod")
            /\ \E ok \in BOOLEAN :
                IF ok
                THEN /\ evidence' = Put(evidence, "pod_info", "<pod>")
                     /\ pc' = "k8s_events"
                     /\ UNCHANGED failed
                ELSE /\ evidence' = Put(evidence, "pod_info_error",
                                        "<exception>")
                     /\ failed' = failed \cup {"pod_info"}
                     /\ pc' = "k8s_return"
       ELSE /\ UNCHANGED <<evidence, calls, failed>>
            /\ pc' = "k8s_return"
    /\ UNCHANGED <<k8s_frame, k8s_default_configuration, containers,
                   pod_containers, logs, response, raised_from, adapter>>

\* Pod details
K8sPod ==
    /\ pc = "k8s_pod"
    /\ IF K8sPodGiven
       THEN /\ K8sAspect("read_namespaced_pod", "pod_info", "<pod>")
            /\ pc' = "k8s_events"
       ELSE /\ UNCHANGED <<evidence, calls, failed>>
            /\ pc' = "k8s_return"
    /\ UNCHANGED <<k8s_frame, k8s_default_configuration, containers,
                   pod_containers, logs, response, raised_from, adapter>>

\* Events
K8sEvents ==
    /\ pc = "k8s_events"
    /\ K8sAspect("list_namespaced_event", "events", "<events>")
    /\ pc' = "k8s_logs"
    /\ UNCHANGED <<k8s_frame, k8s_default_configuration, containers,
                   pod_containers, logs, response, raised_from, adapter>>

\* Logs: the pod is read again for its container list.  When that read
\* raises, the outer except stores logs_error.
K8sLogsPod ==
    /\ pc = "k8s_logs"
    /\ calls' = Append(calls, "read_namespaced_pod")
    /\ \/ \E n \in 0..MaxContainers :
            /\ containers' = [i \in 1..n |-> i]
            /\ pod_containers' = [i \in 1..n |-> i]
            /\ logs' = EmptyDict
            /\ pc' = "k8s_logs_loop"
            /\ UNCHANGED <<evidence, failed>>
       \/ /\ evidence' = Put(evidence, "logs_error", "<exception>")
          /\ failed' = failed \cup {"logs"}
          /\ pc' = "k8s_return"
          /\ UNCHANGED <<containers, pod_containers, logs>>
    /\ UNCHANGED <<k8s_frame, k8s_default_configuration, response,
                   raised_from, adapter>>

\* The entry of failed for the log read of container c.
LogRead(c) == "log_read_" \o ToString(c)

\* K8sLogsLoop without the inner try: the first log read that raises ends
\* the loop in the outer except.
K8sLogsLoopAbortsOnError ==
    /\ pc = "k8s_logs_loop"
    /\ IF containers # <<>>
       THEN /\ calls' = Append(calls, "read_namespaced_pod_log")
            /\ \E ok \in BOOLEAN :
                IF ok
                THEN /\ logs' = Put(logs, Head(containers), "<log text>")
                     /\ containers' = Tail(containers)
                     /\ UNCHANGED <<evidence, pc, failed>>
                ELSE /\ evidence' = Put(evidence, "logs_error", "<exception>")
                     /\ failed' = failed \cup {LogRead(Head(containers))}
                     /\ logs' = EmptyDict
                     /\ containers' = <<>>
                     /\ pc' = "k8s_return"
       ELSE /\ evidence' = Put(evidence, "logs", logs)
            /\ logs' = EmptyDict
            /\ pc' = "k8s_return"
            /\ UNCHANGED <<containers, calls, failed>>
    /\ UNCHANGED <<k8s_frame, k8s_default_configuration, pod_containers,
                   response, raised_from, adapter>>

\* for c in p.spec.containers: one log read per container, each in its own
\* try/except; after the loop evidence["logs"] = logs.
K8sLogsLoop ==
    /\ pc = "k8s_logs_loop"
    /\ IF containers # <<>>
       THEN /\ calls' = Append(calls, "read_namespaced_pod_log")
            /\ \E ok \in BOOLEAN :
                IF ok
                THEN /\ logs' = Put(logs, Head(containers), "<log text>")
                     /\ UNCHANGED failed
                ELSE /\ logs' = Put(logs, Head(containers), "<log_error>")
                     /\ failed' = failed \cup {LogRead(Head(containers))}
            /\ containers' = Tail(containers)
            /\ UNCHANGED <<evidence, pc>>
       ELSE /\ evidence' = Put(evidence, "logs", logs)
            /\ logs' = EmptyDict
            /\ pc' = "k8s_return"
            /\ UNCHANGED <<containers, calls, failed>>
    /\ UNCHANGED <<k8s_frame, k8s_default_configuration, pod_containers,
                   response, raised_from, adapter>>

\* return evidence; the handler binds it to k8s_evidence (main.py 93).
K8sReturn ==
    /\ pc = "k8s_return"
    /\ k8s_evidence' = evidence
    /\ evidence' = EmptyDict
    /\ adapter' = [adapter EXCEPT !["k8s"] = "returned"]
    /\ pc' = "prom_gate"
    /\ UNCHANGED <<config_vars, outside_vars, k8s_default_configuration,
                   incident_id, body, namespace, pod, node,
                   prom_evidence, loki_evidence, evidence_bundle, triage_md, reply,
                   s3_urls, issue_url, containers, pod_containers, logs, out, response,
                   raised_from, calls, failed, analysed, world_vars>>

K8sCollect ==
    \/ K8sLoad \/ K8sNode \/ K8sPod \/ K8sEvents \/ K8sLogsPod
    \/ K8sLogsLoop \/ K8sReturn

---------------------------------------------------------------------------
(* prom_collect_metrics (collectors.py 110-139) and its gate in the handler *)
(* (main.py 95-102).  No query sits in a try/except: an exception of        *)
(* x.get or r.json() leaves the collector and then the handler.             *)

collect_frame == <<config_vars, outside_vars, k8s_default_configuration,
                   incident_id, body, namespace, pod, node,
                   k8s_evidence, evidence_bundle, triage_md, reply, s3_urls,
                   issue_url, k8s_vars, analysed, world_vars>>

\* if PROMETHEUS_URL:
PromConfigured == Truthy(PROMETHEUS_URL)

\* PromPodGiven with the namespace test forgotten.
PromPodGivenPodOnly == Truthy(pod)

\* if namespace and pod:
PromPodGiven == Truthy(namespace) /\ Truthy(pod)

\* if node:
PromNodeGiven == Truthy(node)

\* prom_evidence = {}; if PROMETHEUS_URL: await prom_collect_metrics(...)
PromGate ==
    /\ pc = "prom_gate"
    /\ prom_evidence' = EmptyDict
    /\ out' = EmptyDict
    /\ IF PromConfigured
       THEN /\ adapter' = [adapter EXCEPT !["prometheus"] = "running"]
            /\ pc' = "prom_cpu"
       ELSE /\ pc' = "loki_gate"
            /\ UNCHANGED adapter
    /\ UNCHANGED <<collect_frame, loki_evidence, response, raised_from, calls,
                   failed>>

\* One query of the metrics collector: the GET is issued; the query text
\* and the decoded body are stored, or the exception leaves the collector.
PromQuery(key, next) ==
    /\ calls' = Append(calls, "prom_query_" \o key)
    /\ \E ok \in BOOLEAN :
        IF ok
        THEN /\ out' = Put(Put(out, key \o "_query", "<promql>"),
                           IF key = "pod_mem" THEN "pod_memory" ELSE key,
                           "<result>")
             /\ pc' = next
             /\ UNCHANGED <<response, raised_from, adapter, failed>>
        ELSE /\ Raise("prom_collect_metrics")
             /\ adapter' = [adapter EXCEPT !["prometheus"] = "raised"]
             /\ failed' = failed \cup {key}
             /\ UNCHANGED out

\* Pod CPU
PromPodCpu ==
    /\ pc = "prom_cpu"
    /\ IF PromPodGiven
       THEN PromQuery("pod_cpu", "prom_mem")
       ELSE /\ pc' = "prom_ncpu"
            /\ UNCHANGED <<out, calls, response, raised_from, adapter, failed>>
    /\ UNCHANGED <<collect_frame, prom_evidence, loki_evidence>>

\* Pod memory
PromPodMem ==
    /\ pc = "prom_mem"
    /\ PromQuery("pod_mem", "prom_ncpu")
    /\ UNCHANGED <<collect_frame, prom_evidence, loki_evidence>>

\* Node CPU (optional)
PromNodeCpu ==
    /\ pc = "prom_ncpu"
    /\ IF PromNodeGiven
       THEN PromQuery("node_cpu", "prom_return")
       ELSE /\ pc' = "prom_return"
            /\ UNCHANGED <<out, calls, response, raised_from, adapter, failed>>
    /\ UNCHANGED <<collect_frame, prom_evidence, loki_evidence>>

\* return out; the handler binds it to prom_evidence.
PromReturn ==
    /\ pc = "prom_return"
    /\ prom_evidence' = out
    /\ out' = EmptyDict
    /\ adapter' = [adapter EXCEPT !["prometheus"] = "returned"]
    /\ pc' = "loki_gate"
    /\ UNCHANGED <<collect_frame, loki_evidence, response, raised_from, calls,
                   failed>>

PromCollect == PromGate \/ PromPodCpu \/ PromPodMem \/ PromNodeCpu \/ PromReturn

---------------------------------------------------------------------------
(* loki_collect_logs (collectors.py 142-164) and its gate (main.py 104-111) *)

\* if LOKI_URL and namespace and pod:
LokiEnabled == Truthy(LOKI_URL) /\ Truthy(namespace) /\ Truthy(pod)

\* LokiGate with the collector started but not awaited.
LokiGateNotAwaited ==
    /\ pc = "loki_gate"
    /\ loki_evidence' = EmptyDict
    /\ IF LokiEnabled
       THEN adapter' = [adapter EXCEPT !["loki"] = "running"]
       ELSE UNCHANGED adapter
    /\ pc' = "bundle"
    /\ UNCHANGED <<collect_frame, prom_evidence, out, response, raised_from,
                   calls, failed>>

\* loki_evidence = {}; if LOKI_URL and namespace and pod: await ...
LokiGate ==
    /\ pc = "loki_gate"
    /\ loki_evidence' = EmptyDict
    /\ IF LokiEnabled
       THEN /\ adapter' = [adapter EXCEPT !["loki"] = "running"]
            /\ pc' = "loki_query"
       ELSE /\ pc' = "bundle"
            /\ UNCHANGED adapter
    /\ UNCHANGED <<collect_frame, prom_evidence, out, response, raised_from,
                   calls, failed>>

\* The one query_range GET; its exception leaves the collector.
LokiQuery ==
    /\ pc = "loki_query"
    /\ calls' = Append(calls, "loki_query_range")
    /\ \E ok \in BOOLEAN :
        IF ok
        THEN /\ loki_evidence' =
                   [k \in {"query", "range_minutes", "response"} |->
                      CASE k = "query" -> "<logql>"
                        [] k = "range_minutes" -> "20"
                        [] k = "response" -> "<result>"]
             /\ adapter' = [adapter EXCEPT !["loki"] = "returned"]
             /\ pc' = "bundle"
             /\ UNCHANGED <<response, raised_from, failed>>
        ELSE /\ Raise("loki_collect_logs")
             /\ adapter' = [adapter EXCEPT !["loki"] = "raised"]
             /\ failed' = failed \cup {"loki"}
             /\ UNCHANGED loki_evidence
    /\ UNCHANGED <<collect_frame, prom_evidence, out>>

LokiCollect == LokiGate \/ LokiQuery

---------------------------------------------------------------------------
(* The rest of alertmanager_webhook (main.py 113-190): the bundle, the      *)
(* analysis call, then archive, issue and chat message, each behind its     *)
(* configuration test, and the response.  None of these calls is in a       *)
(* try/except.                                                              *)

publish_frame == <<config_vars, other_vars, k8s_default_configuration,
                   incident_id, body, namespace, pod, node,
                   k8s_evidence, prom_evidence, loki_evidence, k8s_vars, out,
                   adapter>>

\* evidence_bundle = {...}
BuildBundle ==
    /\ pc = "bundle"
    /\ evidence_bundle' =
           [k \in {"incident_id", "created_at", "alertmanager_status",
                   "alerts", "k8s", "prometheus", "loki"} |->
              CASE k = "incident_id" -> incident_id
                [] k = "created_at" -> CreatedAt
                [] k = "alertmanager_status" -> "<status>"
                [] k = "alerts" -> "<alert_summaries>"
                [] k = "k8s" -> k8s_evidence
                [] k = "prometheus" -> prom_evidence
                [] k = "loki" -> loki_evidence]
    /\ pc' = "triage"
    /\ UNCHANGED <<publish_frame, prompt_vars, triage_md, reply, s3_urls,
                   issue_url, response,
                   raised_from, calls, failed, analysed, world_vars>>

\* triage.py 68: return out or "## Summary\nNo response from model."
Placeholder == "## Summary\nNo response from model."

\* The characters of a reply; the first two are whitespace.
Whitespace == {" ", "\n"}
Chars == Whitespace \cup {"x"}

\* The bounds of a reply: its segments and the characters of one segment.
MaxSegments == 2
MaxTextLen == 2

\* All sequences over S of length at most n.
SeqsUpTo(S, n) == UNION {[1..k -> S] : k \in 0..n}

\* Text is a sequence of characters.  A segment of payload["content"] is
\* text-typed, with or without a text, or of another type.
SegmentTexts == SeqsUpTo(Chars, MaxTextLen)
Segments ==
    {[type |-> "tool_use"], [type |-> "text"]}
        \cup {[type |-> "text", text |-> t] : t \in SegmentTexts}

\* Every payload["content"] within the bounds.
AllReplies == SeqsUpTo(Segments, MaxSegments)

\* The replies of the pipeline model: no segment, and one text segment.
Replies == {<<>>, <<[type |-> "text", text |-> <<"x">>]>>}

\* for c in content: if c.get("type") == "text": text_parts.append(...)
RECURSIVE TextParts(_)
TextParts(content) ==
    IF content = <<>> THEN <<>>
    ELSE LET c == Head(content)
             text == IF "text" \in DOMAIN c THEN c.text ELSE <<>>
         IN  (IF c.type = "text" THEN <<text>> ELSE <<>>)
                 \o TextParts(Tail(content))

\* "\n".join(text_parts)
RECURSIVE JoinLines(_)
JoinLines(parts) ==
    IF parts = <<>> THEN <<>>
    ELSE IF Len(parts) = 1 THEN parts[1]
    ELSE parts[1] \o <<"\n">> \o JoinLines(Tail(parts))

RECURSIVE StripLeft(_)
StripLeft(t) ==
    IF t # <<>> /\ Head(t) \in Whitespace THEN StripLeft(Tail(t)) ELSE t

RECURSIVE StripRight(_)
StripRight(t) ==
    IF t # <<>> /\ t[Len(t)] \in Whitespace
    THEN StripRight(SubSeq(t, 1, Len(t) - 1))
    ELSE t

\* Strip with the call of .strip() forgotten.
StripNothing(t) == t

\* str.strip()
Strip(t) == StripLeft(StripRight(t))

\* The str of a sequence of characters.
RECURSIVE ToStr(_)
ToStr(t) == IF t = <<>> THEN "" ELSE Head(t) \o ToStr(Tail(t))

\* out = "\n".join(text_parts).strip(); return out or "## Summary\n..."
\* The characters of the text bedrock_triage_markdown returns; the
\* placeholder is written in three pieces, the middle one its line break.
PlaceholderChars == <<"## Summary", "\n", "No response from model.">>
TriageChars(content) ==
    LET joined == Strip(JoinLines(TextParts(content)))
    IN  IF joined # <<>> THEN joined ELSE PlaceholderChars
TriageText(content) == ToStr(TriageChars(content))

\* main.py 179: the lines of the runbook that go into the chat message.
ExcerptLines == 20

\* str.splitlines() for the line break "\n"
RECURSIVE SplitLines(_)
SplitLines(t) ==
    IF t = <<>> THEN <<>>
    ELSE LET breaks == {i \in DOMAIN t : t[i] = "\n"}
         IN  IF breaks = {} THEN <<t>>
             ELSE LET i == CHOOSE b \in breaks : \A c \in breaks : b <= c
                  IN  <<SubSeq(t, 1, i - 1)>>
                          \o SplitLines(SubSeq(t, i + 1, Len(t)))

\* "\n".join(triage_md.splitlines()[:20])
Excerpt(t) ==
    LET lines == SplitLines(t)
        kept == IF Len(lines) > ExcerptLines THEN ExcerptLines ELSE Len(lines)
    IN  JoinLines(SubSeq(lines, 1, kept))

\* bedrock_triage_markdown with the call repeated when it raises.
\* triage.py 30: the cap on the serialized evidence, and the marker that
\* follows a truncated one.
PromptCap == 120000
Marker == "\n...<truncated>..."

\* How far from the cap the serializations of the prompt model are.
MaxExcess == 60

\* The lengths of json.dumps(evidence, indent=2) in the pipeline model, at
\* and over the cap, and in the prompt model.
Lengths == {PromptCap, PromptCap + 1}
AllLengths == (PromptCap - MaxExcess)..(PromptCap + MaxExcess)

\* json.dumps(evidence, indent=2) for a bundle whose serialization has n
\* characters: all of them.
Dumps(n) == [from |-> 0, to |-> n, suffix |-> ""]

\* len(t), t[:n] and t + s on texts
TextLen(t) == (t.to - t.from) + Len(t.suffix)
Slice(t, n) ==
    IF t.to - t.from >= n
    THEN [from |-> t.from, to |-> t.from + n, suffix |-> ""]
    ELSE t
Concat(t, s) == [t EXCEPT !.suffix = t.suffix \o s]

\* build_prompt with the cap inclusive.
build_prompt_inclusive(t) ==
    IF TextLen(t) >= PromptCap THEN Concat(Slice(t, PromptCap), Marker) ELSE t

\* _build_prompt (triage.py 27-32), the evidence text it puts in the fixed
\* frame of the prompt:
\*   if len(safe) > 120000: safe = safe[:120000] + "\n...<truncated>..."
build_prompt(t) ==
    IF TextLen(t) > PromptCap THEN Concat(Slice(t, PromptCap), Marker) ELSE t

TriageRetried(R, L) ==
    /\ pc = "triage"
    /\ analysed' = evidence_bundle
    /\ \E n \in L :
        /\ serialized' = Dumps(n)
        /\ safe' = build_prompt(Dumps(n))
    /\ \E first_ok \in BOOLEAN :
        /\ calls' = IF first_ok
                    THEN Append(calls, "bedrock_invoke_model")
                    ELSE calls \o <<"bedrock_invoke_model",
                                    "bedrock_invoke_model">>
        /\ failed' = IF first_ok THEN failed ELSE failed \cup {"bedrock"}
        /\ \E content \in R :
             /\ reply' = content
             /\ triage_md' = TriageText(content)
             /\ pc' = "s3"
    /\ UNCHANGED <<publish_frame, evidence_bundle, s3_urls, issue_url,
                   world_vars, response, raised_from>>

\* bedrock_triage_markdown with its exception swallowed: the placeholder is
\* returned instead.
TriageFallback(R, L) ==
    /\ pc = "triage"
    /\ calls' = Append(calls, "bedrock_invoke_model")
    /\ analysed' = evidence_bundle
    /\ \E n \in L :
        /\ serialized' = Dumps(n)
        /\ safe' = build_prompt(Dumps(n))
    /\ \/ /\ failed' = failed \cup {"bedrock"}
          /\ triage_md' = Placeholder
          /\ UNCHANGED reply
       \/ \E content \in R :
            /\ reply' = content
            /\ triage_md' = TriageText(content)
            /\ UNCHANGED failed
    /\ pc' = "s3"
    /\ UNCHANGED <<publish_frame, evidence_bundle, s3_urls, issue_url,
                   world_vars, response, raised_from>>

\* bedrock_triage_markdown (triage.py 35-68) for a backend whose replies are
\* in R and a bundle whose serialization has one of the lengths in L: the
\* client and the prompt are built, invoke_model is called once, the text
\* segments of the reply are joined.  An exception before, in or
\* after the call leaves the handler.
TriageFrom(R, L) ==
    /\ pc = "triage"
    /\ \/ /\ Raise("bedrock_triage_markdown")
          /\ failed' = failed \cup {"bedrock"}
          /\ UNCHANGED <<prompt_vars, calls, analysed, triage_md, reply>>
       \/ /\ \E n \in L :
               /\ serialized' = Dumps(n)
               /\ safe' = build_prompt(Dumps(n))
          /\ calls' = Append(calls, "bedrock_invoke_model")
          /\ analysed' = evidence_bundle
          /\ \/ /\ Raise("bedrock_triage_markdown")
                /\ failed' = failed \cup {"bedrock"}
                /\ UNCHANGED <<triage_md, reply>>
             \/ \E content \in R :
                  /\ reply' = content
                  /\ triage_md' = TriageText(content)
                  /\ pc' = "s3"
                  /\ UNCHANGED <<response, raised_from, failed>>
    /\ UNCHANGED <<publish_frame, evidence_bundle, s3_urls, issue_url,
                   world_vars>>

\* The analysis step of the pipeline model.
Triage == TriageFrom(Replies, Lengths)

\* created_at.replace(':','-')
CreatedAtKey == "2026-01-01T00-00-00Z"

\* s3_prefix = f"incidents/{created_at.replace(':','-')}_{incident_id}"
s3_prefix == "incidents/" \o CreatedAtKey \o "_" \o incident_id

\* if S3_BUCKET:
S3Configured == Truthy(S3_BUCKET)

\* s3_urls = {}; if S3_BUCKET: await s3_put_json(... evidence.json ...)
StoreEvidence ==
    /\ pc = "s3"
    /\ s3_urls' = EmptyDict
    /\ IF S3Configured
       THEN /\ calls' = Append(calls, "s3_put_json")
            /\ \E ok \in BOOLEAN :
                IF ok
                THEN /\ s3_store' = Put(s3_store, s3_prefix \o "/evidence.json",
                                        [ContentType |-> "application/json",
                                         Body |-> evidence_bundle])
                     /\ pc' = "s3_text"
                     /\ UNCHANGED <<response, raised_from, failed>>
                ELSE /\ Raise("s3_put_json")
                     /\ failed' = failed \cup {"s3_put_json"}
                     /\ UNCHANGED s3_store
       ELSE /\ pc' = "github"
            /\ UNCHANGED <<calls, s3_store, response, raised_from, failed>>
    /\ UNCHANGED <<publish_frame, prompt_vars, evidence_bundle, triage_md,
                   reply, issue_url,
                   analysed, github_issues, slack_posts>>

\* StoreRunbook with the write left out: the key is handed on unwritten.
StoreRunbookNotWritten ==
    /\ pc = "s3_text"
    /\ s3_urls' = [k \in {"evidence_key", "runbook_key"} |->
                     IF k = "evidence_key"
                     THEN s3_prefix \o "/evidence.json"
                     ELSE s3_prefix \o "/runbook.md"]
    /\ pc' = "github"
    /\ UNCHANGED <<publish_frame, prompt_vars, evidence_bundle, triage_md,
                   reply, issue_url,
                   analysed, world_vars, calls, response, raised_from, failed>>

\* StoreRunbook with the exception of the write swallowed.
StoreRunbookFailureIgnored ==
    /\ pc = "s3_text"
    /\ calls' = Append(calls, "s3_put_text")
    /\ \E ok \in BOOLEAN :
        IF ok
        THEN /\ s3_store' = Put(s3_store, s3_prefix \o "/runbook.md",
                                [ContentType |-> "text/markdown",
                                 Body |-> triage_md])
             /\ UNCHANGED failed
        ELSE /\ failed' = failed \cup {"s3_put_text"}
             /\ UNCHANGED s3_store
    /\ s3_urls' = [k \in {"evidence_key", "runbook_key"} |->
                     IF k = "evidence_key"
                     THEN s3_prefix \o "/evidence.json"
                     ELSE s3_prefix \o "/runbook.md"]
    /\ pc' = "github"
    /\ UNCHANGED <<publish_frame, prompt_vars, evidence_bundle, triage_md,
                   reply,
                   issue_url, analysed, github_issues, slack_posts, response,
                   raised_from>>

\* await s3_put_text(... runbook.md ...); s3_urls = {...}
StoreRunbook ==
    /\ pc = "s3_text"
    /\ calls' = Append(calls, "s3_put_text")
    /\ \E ok \in BOOLEAN :
        IF ok
        THEN /\ s3_store' = Put(s3_store, s3_prefix \o "/runbook.md",
                                [ContentType |-> "text/markdown",
                                 Body |-> triage_md])
             /\ s3_urls' = [k \in {"evidence_key", "runbook_key"} |->
                              IF k = "evidence_key"
                              THEN s3_prefix \o "/evidence.json"
                              ELSE s3_prefix \o "/runbook.md"]
             /\ pc' = "github"
             /\ UNCHANGED <<response, raised_from, failed>>
        ELSE /\ Raise("s3_put_text")
             /\ failed' = failed \cup {"s3_put_text"}
             /\ UNCHANGED <<s3_store, s3_urls>>
    /\ UNCHANGED <<publish_frame, prompt_vars, evidence_bundle, triage_md,
                   reply, issue_url,
                   analysed, github_issues, slack_posts>>

\* GithubConfigured with "or" for "and".
GithubConfiguredEither == Truthy(GITHUB_TOKEN) \/ Truthy(GITHUB_REPO)

\* if GITHUB_TOKEN and GITHUB_REPO:
GithubConfigured == Truthy(GITHUB_TOKEN) /\ Truthy(GITHUB_REPO)

\* if S3_BUCKET and s3_urls:
ArtifactsKnown == Truthy(S3_BUCKET) /\ TruthyDict(s3_urls)

\* issue_body with the id of another incident in place of incident_id.
issue_body_other_id ==
    [incident_id |-> CHOOSE u \in UUIDs : u # incident_id,
     created_at |-> CreatedAt,
     runbook |-> triage_md,
     artifacts |-> IF ArtifactsKnown THEN s3_urls ELSE EmptyDict]

\* issue_body (main.py 145-156)
issue_body ==
    [incident_id |-> incident_id,
     created_at |-> CreatedAt,
     runbook |-> triage_md,
     artifacts |-> IF ArtifactsKnown THEN s3_urls ELSE EmptyDict]

\* What create_github_issue (github_issues.py 4-20) can meet: the POST or
\* raise_for_status raises; the issue is created but the body of the reply
\* is not JSON; the issue is created and the reply has, or lacks, html_url.
GithubOutcomes == {"error", "bad_reply", "html_url", "no_html_url"}

\* CreateIssue with the call in a try/except that swallows its exception.
CreateIssueSwallowed ==
    /\ pc = "github"
    /\ IF GithubConfigured
       THEN /\ calls' = Append(calls, "github_post_issue")
            /\ \E o \in GithubOutcomes :
                /\ github_issues' = IF o = "error" THEN github_issues
                                    ELSE github_issues \cup {issue_body}
                /\ issue_url' = (IF o = "html_url"
                                 THEN "https://github/issues/1"
                                 ELSE None)
                /\ failed' = IF o \in {"error", "bad_reply"}
                             THEN failed \cup {"github"} ELSE failed
       ELSE /\ issue_url' = None
            /\ UNCHANGED <<calls, github_issues, failed>>
    /\ pc' = "slack"
    /\ UNCHANGED <<publish_frame, prompt_vars, evidence_bundle, triage_md,
                   reply, s3_urls,
                   analysed, s3_store, slack_posts, response, raised_from>>

\* issue_url = None; if GITHUB_TOKEN and GITHUB_REPO: ... create_github_issue
CreateIssue ==
    /\ pc = "github"
    /\ IF GithubConfigured
       THEN /\ calls' = Append(calls, "github_post_issue")
            /\ \E o \in GithubOutcomes :
                /\ github_issues' = IF o = "error" THEN github_issues
                                    ELSE github_issues \cup {issue_body}
                /\ IF o \in {"error", "bad_reply"}
                   THEN /\ Raise("create_github_issue")
                        /\ failed' = failed \cup {"github"}
                        /\ UNCHANGED issue_url
                   ELSE /\ issue_url' = (IF o = "html_url"
                                         THEN "https://github/issues/1"
                                         ELSE None)
                        /\ pc' = "slack"
                        /\ UNCHANGED <<response, raised_from, failed>>
       ELSE /\ issue_url' = None
            /\ pc' = "slack"
            /\ UNCHANGED <<calls, github_issues, response, raised_from,
                           failed>>
    /\ UNCHANGED <<publish_frame, prompt_vars, evidence_bundle, triage_md,
                   reply, s3_urls,
                   analysed, s3_store, slack_posts>>

\* if SLACK_WEBHOOK_URL:
SlackConfigured == Truthy(SLACK_WEBHOOK_URL)

\* slack_text (main.py 166-180).  triage_md is the text of TriageChars(reply).
slack_text ==
    [incident_id |-> incident_id,
     issue |-> IF Truthy(issue_url) THEN issue_url ELSE None,
     s3 |-> IF ArtifactsKnown THEN s3_urls["runbook_key"] ELSE None,
     excerpt |-> ToStr(Excerpt(TriageChars(reply)))]

\* Notify as a best-effort step: the exception of the POST is swallowed.
NotifyBestEffort ==
    /\ pc = "slack"
    /\ IF SlackConfigured
       THEN /\ calls' = Append(calls, "slack_post")
            /\ \E ok \in BOOLEAN :
                IF ok
                THEN /\ slack_posts' = slack_posts \cup {slack_text}
                     /\ UNCHANGED failed
                ELSE /\ failed' = failed \cup {"slack"}
                     /\ UNCHANGED slack_posts
       ELSE UNCHANGED <<calls, slack_posts, failed>>
    /\ pc' = "respond"
    /\ UNCHANGED <<publish_frame, prompt_vars, evidence_bundle, triage_md,
                   reply, s3_urls,
                   issue_url, analysed, s3_store, github_issues, response,
                   raised_from>>

\* if SLACK_WEBHOOK_URL: ... await send_slack_webhook(...)  (slack.py 4-7)
Notify ==
    /\ pc = "slack"
    /\ IF SlackConfigured
       THEN /\ calls' = Append(calls, "slack_post")
            /\ \E ok \in BOOLEAN :
                IF ok
                THEN /\ slack_posts' = slack_posts \cup {slack_text}
                     /\ pc' = "respond"
                     /\ UNCHANGED <<response, raised_from, failed>>
                ELSE /\ Raise("send_slack_webhook")
                     /\ failed' = failed \cup {"slack"}
                     /\ UNCHANGED slack_posts
       ELSE /\ pc' = "respond"
            /\ UNCHANGED <<calls, slack_posts, response, raised_from, failed>>
    /\ UNCHANGED <<publish_frame, prompt_vars, evidence_bundle, triage_md,
                   reply, s3_urls,
                   issue_url, analysed, s3_store, github_issues>>

\* return JSONResponse({...})
Respond ==
    /\ pc = "respond"
    /\ response' = [status_code |-> 200,
                    ok |-> TRUE,
                    incident_id |-> incident_id,
                    issue_url |-> issue_url,
                    s3 |-> s3_urls]
    /\ pc' = "done"
    /\ UNCHANGED <<publish_frame, prompt_vars, evidence_bundle, triage_md,
                   reply, s3_urls,
                   issue_url, raised_from, calls, failed, analysed,
                   world_vars>>

Publish == StoreEvidence \/ StoreRunbook \/ CreateIssue \/ Notify \/ Respond

Next ==
    \/ Intake
    \/ K8sCollect
    \/ PromCollect
    \/ LokiCollect
    \/ BuildBundle
    \/ Triage
    \/ Publish

Spec == Init /\ [][Next]_vars
---------------------------------------------------------------------------
(* Vocabulary of the properties.                                            *)

\* Call c was issued.
Called(c) == \E i \in DOMAIN calls : calls[i] = c

\* How often call c was issued.
CallCount(c) == Cardinality({i \in DOMAIN calls : calls[i] = c})

\* Call c was issued before the i-th call.
CalledBefore(c, i) == \E j \in 1..(i - 1) : calls[j] = c

\* The coordinates present in the alert.
HasNode == node # None /\ node # ""
HasPod == namespace # None /\ namespace # "" /\ pod # None /\ pod # ""

\* Which destinations and adapters the environment configures.
MetricsOn == PROMETHEUS_URL # ""
LogQueryOn == LOKI_URL # ""
ArchiveOn == S3_BUCKET # ""
TrackerOn == GITHUB_TOKEN # "" /\ GITHUB_REPO # ""
ChatOn == SLACK_WEBHOOK_URL # ""

\* The adapters an invocation has to run, once its coordinates are known.
AdapterEnabled(a) ==
    CASE a = "k8s" -> TRUE
      [] a = "prometheus" -> MetricsOn
      [] a = "loki" -> LogQueryOn /\ HasPod

\* The handler has built the bundle.
BundleBuilt == DOMAIN evidence_bundle # {}

\* Dict d holds fragment k, as a payload or as an error marker.
HasFragment(d, k) == k \in DOMAIN d \/ (k \o "_error") \in DOMAIN d

CollectorFunctions ==
    {"k8s_collect_evidence", "prom_collect_metrics", "loki_collect_logs"}

\* The aspects of the three adapters, as recorded in failed.
K8sAspects == {"node_info", "pod_info", "events", "logs"}
PromAspects == {"pod_cpu", "pod_mem", "node_cpu"}
CollectionAspects ==
    {"k8s_client_setup", "loki"} \cup K8sAspects \cup PromAspects

\* Where the error marker of a failed aspect would be in the bundle.
MarkedInBundle(a) ==
    CASE a \in K8sAspects -> (a \o "_error") \in DOMAIN evidence_bundle["k8s"]
      [] a \in PromAspects ->
            (a \o "_error") \in DOMAIN evidence_bundle["prometheus"]
      [] a = "loki" -> "error" \in DOMAIN evidence_bundle["loki"]
      [] OTHER -> "k8s_error" \in DOMAIN evidence_bundle

---------------------------------------------------------------------------
\* C1: whenever a single adapter aspect has failed, no exception has left
\* evidence collection, and once the bundle is built it holds the error
\* marker of that aspect.
C1_AspectFailureStaysInBundle ==
    \A a \in failed \cap CollectionAspects :
        /\ raised_from \notin CollectorFunctions
        /\ pc # "failed"
        /\ BundleBuilt => MarkedInBundle(a)

\* C2: no adapter's start waits for another adapter's completion: there is
\* never an adapter that has returned while an enabled adapter has not
\* started yet.
C2_NoAdapterWaitsForAnother ==
    \A a, b \in Adapters :
        (adapter[a] = "returned" /\ AdapterEnabled(b))
            => adapter[b] # "not_started"

\* C3: when the analysis function is entered or its backend call has been
\* issued, every enabled adapter has returned, and the bundle handed to the
\* analysis is the merge of what the three adapters returned, with the
\* fragments of every enabled adapter in it.
C3_FanInBarrier ==
    /\ (pc = "triage" \/ Called("bedrock_invoke_model")) =>
          \A a \in Adapters : AdapterEnabled(a) => adapter[a] = "returned"
    /\ Called("bedrock_invoke_model") =>
          /\ {"k8s", "prometheus", "loki"} \subseteq DOMAIN analysed
          /\ analysed["k8s"] = k8s_evidence
          /\ analysed["prometheus"] = prom_evidence
          /\ analysed["loki"] = loki_evidence
          /\ {"namespace", "pod", "node"} \subseteq DOMAIN analysed["k8s"]
          /\ (MetricsOn /\ HasNode) => "node_cpu" \in DOMAIN analysed["prometheus"]
          /\ (LogQueryOn /\ HasPod) => "response" \in DOMAIN analysed["loki"]

\* C3 witness: the analysis call was issued in an invocation in which all
\* three adapters were enabled and ran.
C3_Witness ==
    /\ Called("bedrock_invoke_model")
    /\ \A a \in Adapters : AdapterEnabled(a) /\ adapter[a] = "returned"
    /\ Called("loki_query_range")
    /\ Called("prom_query_pod_mem")

\* C4: the issue POST is issued only after both archive writes were
\* attempted (archival configured), and the chat POST only after the archive
\* writes (archival configured) and after the issue POST has come back
\* (tracker configured); the archive writes go evidence first.
C4_ArchiveThenIssueThenChat ==
    \A i \in DOMAIN calls :
        /\ calls[i] = "s3_put_text" => CalledBefore("s3_put_json", i)
        /\ (calls[i] \in {"github_post_issue", "slack_post"} /\ ArchiveOn) =>
              CalledBefore("s3_put_json", i) /\ CalledBefore("s3_put_text", i)
        /\ (calls[i] = "slack_post" /\ TrackerOn) =>
              /\ CalledBefore("github_post_issue", i)
              /\ "github" \notin failed
              /\ issue_url \in {None, "https://github/issues/1"}
        /\ calls[i] \in {"s3_put_json", "s3_put_text"} =>
              ~CalledBefore("github_post_issue", i) /\ ~CalledBefore("slack_post", i)
        /\ calls[i] = "github_post_issue" => ~CalledBefore("slack_post", i)

\* C4 witness: all three destinations configured and all three used.
C4_Witness ==
    /\ ArchiveOn /\ TrackerOn /\ ChatOn
    /\ Called("s3_put_json") /\ Called("s3_put_text")
    /\ Called("github_post_issue") /\ Called("slack_post")
    /\ pc = "done"

\* C5: when the issue tracker call has failed, the request has failed with
\* no ok result, no chat POST was issued and no chat message exists, and with
\* archival configured both documents of this incident are in the archive.
C5_IssueFailureFailsRequest ==
    "github" \in failed =>
        /\ pc = "failed"
        /\ response.status_code = 500
        /\ raised_from = "create_github_issue"
        /\ ~Called("slack_post")
        /\ slack_posts = {}
        /\ ArchiveOn =>
              {s3_prefix \o "/evidence.json", s3_prefix \o "/runbook.md"}
                  \subseteq DOMAIN s3_store

\* C5 witness: the tracker call failed after the archive was written.
C5_Witness ==
    /\ "github" \in failed
    /\ ArchiveOn /\ ChatOn
    /\ Called("s3_put_text")

\* The calls behind the analysis and the side effects, as recorded in failed.
HardFailures ==
    {"bedrock", "s3_put_json", "s3_put_text", "github", "slack"}

\* C6: an ok result is returned only if the analysis call and every
\* configured side effect succeeded; once the analysis or a configured side
\* effect has failed, the request has failed.
C6_NoSwallowedFailure ==
    /\ response.status_code = 200 =>
          /\ response.ok
          /\ failed \cap HardFailures = {}
          /\ CallCount("bedrock_invoke_model") = 1
          /\ triage_md # None
          /\ ArchiveOn =>
                {s3_prefix \o "/evidence.json", s3_prefix \o "/runbook.md"}
                    \subseteq DOMAIN s3_store
          /\ TrackerOn => github_issues # {}
          /\ ChatOn => slack_posts # {}
    /\ failed \cap HardFailures # {} =>
          pc = "failed" /\ response.status_code = 500

\* C6 witness: an ok result with all three destinations configured.
C6_Witness ==
    /\ response.status_code = 200
    /\ ArchiveOn /\ TrackerOn /\ ChatOn

\* The outbound calls of evidence collection and analysis.
CollectionAndAnalysisCalls ==
    {"read_node", "read_namespaced_pod", "list_namespaced_event",
     "read_namespaced_pod_log", "prom_query_pod_cpu", "prom_query_pod_mem",
     "prom_query_node_cpu", "loki_query_range",
     "bedrock_invoke_model"}

\* C7: with archival, tracker and chat unconfigured, an ok result carries the
\* generated incident id, no issue URL and no archive locations, and the
\* invocation issued only collection calls and one analysis call and wrote
\* nothing.
C7_NothingConfigured ==
    (response.status_code = 200 /\ ~ArchiveOn /\ ~TrackerOn /\ ~ChatOn) =>
        /\ response.ok
        /\ response.incident_id \in UUIDs
        /\ response.incident_id = incident_id
        /\ response.issue_url = None
        /\ response.s3 = EmptyDict
        /\ \A i \in DOMAIN calls : calls[i] \in CollectionAndAnalysisCalls
        /\ CallCount("bedrock_invoke_model") = 1
        /\ DOMAIN s3_store = {}
        /\ github_issues = {}
        /\ slack_posts = {}

\* C7 witness: an ok result with nothing configured but a token without a
\* repository.
C7_Witness ==
    /\ response.status_code = 200
    /\ ~ArchiveOn /\ ~TrackerOn /\ ~ChatOn
    /\ GITHUB_TOKEN # ""

\* C8: the bundle has no key for an adapter whose endpoint is not
\* configured, and that adapter was not attempted.
C8_UnconfiguredAdapterHasNoKey ==
    BundleBuilt =>
        /\ ~LogQueryOn =>
              /\ adapter["loki"] = "not_started"
              /\ ~Called("loki_query_range")
              /\ "loki" \notin DOMAIN evidence_bundle
        /\ ~MetricsOn =>
              /\ adapter["prometheus"] = "not_started"
              /\ \A q \in PromAspects : ~Called("prom_query_" \o q)
              /\ "prometheus" \notin DOMAIN evidence_bundle

\* The keys of the cluster-state dict: the coordinates and the fragments.
K8sKeys ==
    {"namespace", "pod", "node"} \cup K8sAspects
        \cup {a \o "_error" : a \in K8sAspects}

\* C9: in a built bundle the node fragments are there iff the node is
\* present, the pod, events, logs, pod metrics and log-query fragments iff
\* namespace and pod are both present (metrics and log-query fragments when
\* their adapter is configured, none otherwise), and there is nothing else.
C9_FragmentsMatchCoordinates ==
    BundleBuilt =>
        LET k == evidence_bundle["k8s"]
            p == evidence_bundle["prometheus"]
            l == evidence_bundle["loki"]
        IN  /\ HasFragment(k, "node_info") <=> HasNode
            /\ \A a \in {"pod_info", "events", "logs"} :
                  HasFragment(k, a) <=> HasPod
            /\ DOMAIN k \subseteq K8sKeys
            /\ \A a \in {"pod_cpu", "pod_memory"} :
                  a \in DOMAIN p <=> (MetricsOn /\ HasPod)
            /\ "node_cpu" \in DOMAIN p <=> (MetricsOn /\ HasNode)
            /\ DOMAIN p \subseteq
                  {"pod_cpu", "pod_cpu_query", "pod_memory", "pod_mem_query",
                   "node_cpu", "node_cpu_query"}
            /\ "response" \in DOMAIN l <=> (LogQueryOn /\ HasPod)
            /\ DOMAIN l \subseteq {"query", "range_minutes", "response"}

\* C9 witness: a bundle for namespace and pod without a node, all adapters
\* configured.
C9_Witness ==
    /\ BundleBuilt
    /\ HasPod /\ ~HasNode
    /\ MetricsOn /\ LogQueryOn
    /\ "pod_cpu" \in DOMAIN evidence_bundle["prometheus"]

\* The metrics queries whose coordinates are present.
ExpectedPromQueries ==
    (IF HasPod THEN {"pod_cpu", "pod_mem"} ELSE {})
        \cup (IF HasNode THEN {"node_cpu"} ELSE {})

\* C10: an invocation in which a metrics query failed ends with every other
\* metrics query whose coordinates are present issued, and with its result
\* in the bundle.
C10_MetricsQueriesIndependent ==
    (pc \in {"done", "failed"} /\ failed \cap PromAspects # {}) =>
        \A q \in ExpectedPromQueries \ failed :
            /\ Called("prom_query_" \o q)
            /\ BundleBuilt
            /\ (IF q = "pod_mem" THEN "pod_memory" ELSE q)
                  \in DOMAIN evidence_bundle["prometheus"]

\* The handler has come to the publishing steps.
ReachedPublishing ==
    \/ pc \in {"s3", "s3_text", "github", "slack", "respond", "done"}
    \/ raised_from \in {"s3_put_json", "s3_put_text", "create_github_issue",
                        "send_slack_webhook"}

\* C12: the analysis backend is called at most once, exactly once when the
\* handler has come to publishing, and a failed analysis has failed the
\* request without a second call.
C12_AnalysisCalledOnce ==
    /\ CallCount("bedrock_invoke_model") <= 1
    /\ ReachedPublishing => CallCount("bedrock_invoke_model") = 1
    /\ "bedrock" \in failed =>
          /\ pc = "failed"
          /\ response.status_code = 500
          /\ raised_from = "bedrock_triage_markdown"

\* C12 witness: the one analysis call was issued and raised.
C12_Witness ==
    /\ "bedrock" \in failed
    /\ CallCount("bedrock_invoke_model") = 1

\* Both documents of this incident are in the archive.
BothArchived ==
    {s3_prefix \o "/evidence.json", s3_prefix \o "/runbook.md"}
        \subseteq DOMAIN s3_store

\* C17: the issue body, the chat message and the result carry the archive
\* locations iff archival is configured and both documents are written, and
\* an issue or chat POST with archival configured comes after both writes.
C17_LocationsIffArchived ==
    /\ \A i \in github_issues :
          /\ i.artifacts # EmptyDict <=> (ArchiveOn /\ BothArchived)
          /\ i.artifacts # EmptyDict =>
                DOMAIN i.artifacts = {"evidence_key", "runbook_key"}
    /\ \A m \in slack_posts :
          /\ m.s3 # None <=> (ArchiveOn /\ BothArchived)
          /\ m.s3 # None => m.s3 = s3_prefix \o "/runbook.md"
    /\ response.status_code = 200 =>
          (response.s3 # EmptyDict <=> (ArchiveOn /\ BothArchived))
    /\ ((Called("github_post_issue") \/ Called("slack_post")) /\ ArchiveOn)
          => BothArchived
    /\ ~ArchiveOn => DOMAIN s3_store = {}

\* C17 witness: an issue and a chat message that carry the locations.
C17_Witness ==
    /\ \E i \in github_issues : i.artifacts # EmptyDict
    /\ \E m \in slack_posts : m.s3 # None
    /\ response.status_code = 200

\* Aspect a of the cluster-state adapter is attempted.
K8sAttempted(a) == IF a = "node_info" THEN HasNode ELSE HasPod

\* C18: no aspect of the cluster-state adapter ever has both its fragment
\* and its error marker; when the adapter has returned, every attempted
\* aspect has exactly one of them, the marker iff its call raised, and the
\* call of every attempted aspect was issued whatever failed before it.
C18_OneFragmentPerAspect ==
    /\ \A a \in K8sAspects :
          ~(a \in DOMAIN evidence /\ (a \o "_error") \in DOMAIN evidence)
    /\ adapter["k8s"] = "returned" =>
          /\ \A a \in K8sAspects :
                /\ K8sAttempted(a) =>
                      (a \in DOMAIN k8s_evidence)
                          # ((a \o "_error") \in DOMAIN k8s_evidence)
                /\ (a \o "_error") \in DOMAIN k8s_evidence <=> a \in failed
          /\ HasNode => CallCount("read_node") = 1
          /\ HasPod => /\ CallCount("read_namespaced_pod") = 2
                       /\ CallCount("list_namespaced_event") = 1

\* C18 witness: the pod read failed and events and logs were still fetched.
C18_Witness ==
    /\ adapter["k8s"] = "returned"
    /\ "pod_info" \in failed
    /\ "events" \in DOMAIN k8s_evidence
    /\ "logs" \in DOMAIN k8s_evidence

\* The containers the pod read listed.
ListedContainers == {pod_containers[i] : i \in DOMAIN pod_containers}

\* C19: when the cluster-state adapter has returned for a pod, the logs
\* fragment is an error marker iff the pod read that lists the containers
\* raised; otherwise it has an entry for every listed container, the inline
\* error string for the containers whose log read raised and the log text
\* for the others, and one log read was issued per container.
C19_LogsPerContainer ==
    (adapter["k8s"] = "returned" /\ HasPod) =>
        /\ "logs_error" \in DOMAIN k8s_evidence <=> "logs" \in failed
        /\ "logs" \in DOMAIN k8s_evidence <=> "logs" \notin failed
        /\ "logs" \in DOMAIN k8s_evidence =>
              /\ DOMAIN k8s_evidence["logs"] = ListedContainers
              /\ \A c \in ListedContainers :
                    k8s_evidence["logs"][c] =
                        IF LogRead(c) \in failed THEN "<log_error>"
                                                 ELSE "<log text>"
              /\ CallCount("read_namespaced_pod_log") = Len(pod_containers)

\* C19 witness: two containers, the log read of the first raised.
C19_Witness ==
    /\ adapter["k8s"] = "returned"
    /\ Len(pod_containers) >= 2
    /\ LogRead(1) \in failed
    /\ LogRead(2) \notin failed
    /\ "logs" \in DOMAIN k8s_evidence

\* C20: when the analysis has failed, the request has failed and nothing
\* was written: no archive document, no issue, no chat message, and no call
\* to any of the three destinations.
C20_AnalysisFailureNoSideEffect ==
    "bedrock" \in failed =>
        /\ pc = "failed"
        /\ response.status_code = 500
        /\ DOMAIN s3_store = {}
        /\ github_issues = {}
        /\ slack_posts = {}
        /\ \A i \in DOMAIN calls : calls[i] \in CollectionAndAnalysisCalls

\* C20 witness: the analysis failed with all three destinations configured.
C20_Witness ==
    /\ "bedrock" \in failed
    /\ ArchiveOn /\ TrackerOn /\ ChatOn

\* The bodies the claim calls malformed.
Malformed == {"missing", "not_json", "not_object", "no_alerts"}

\* C15: for a malformed body no collection, analysis or side effect happens
\* and the request ends in a client-style failure (a 4xx status), which a
\* backend failure (500) is not.
C15_MalformedIsClientFailure ==
    body \in Malformed =>
        /\ calls = <<>>
        /\ DOMAIN s3_store = {} /\ github_issues = {} /\ slack_posts = {}
        /\ pc \in {"done", "failed"} => response.status_code \in 400..499

----------------------------------------------------------------------------
(* The analysis step alone.  The handler stands at the analysis step for   *)
(* an alert without coordinates, with the three destinations configured    *)
(* and no metrics or log backend.  In the reply model the reply is any     *)
(* payload["content"] within the bounds; in the prompt model the           *)
(* serialized bundle has any length within MaxExcess of the cap.           *)

InitAnalysis ==
    /\ PROMETHEUS_URL = "" /\ LOKI_URL = ""
    /\ S3_BUCKET = "set" /\ GITHUB_TOKEN = "set" /\ GITHUB_REPO = "set"
    /\ SLACK_WEBHOOK_URL = "set"
    /\ k8s_default_configuration = "set_by_this_invocation"
    /\ body = "alerts"
    /\ reply = <<>>
    /\ serialized = NoText /\ safe = NoText
    /\ pod_containers = <<>>
    /\ other_pc = "idle" /\ other_incident_id = None
    /\ pc = "triage"
    /\ incident_id = "uuid-a"
    /\ namespace = None /\ pod = None /\ node = None
    /\ k8s_evidence = [k \in {"namespace", "pod", "node"} |-> None]
    /\ prom_evidence = EmptyDict
    /\ loki_evidence = EmptyDict
    /\ evidence_bundle =
           [incident_id |-> "uuid-a", created_at |-> CreatedAt,
            alertmanager_status |-> "<status>", alerts |-> "<alert_summaries>",
            k8s |-> [k \in {"namespace", "pod", "node"} |-> None],
            prometheus |-> EmptyDict,
            loki |-> EmptyDict]
    /\ triage_md = None
    /\ s3_urls = EmptyDict
    /\ issue_url = None
    /\ evidence = EmptyDict /\ containers = <<>> /\ logs = EmptyDict
    /\ out = EmptyDict
    /\ response = NoResponse
    /\ raised_from = ""
    /\ adapter = [a \in Adapters |->
                    IF a = "k8s" THEN "returned" ELSE "not_started"]
    /\ calls = <<>>
    /\ failed = {}
    /\ analysed = EmptyDict
    /\ s3_store = EmptyDict /\ github_issues = {} /\ slack_posts = {}

\* The analysis step with every reply within the bounds.
TriageAnyReply == TriageFrom(AllReplies, {PromptCap})

NextReply == TriageAnyReply \/ Publish

SpecReply == InitAnalysis /\ [][NextReply]_vars

\* The analysis step with every length of the serialized bundle within the
\* bounds.
TriageAnyLength == TriageFrom(Replies, AllLengths)

NextPrompt == TriageAnyLength \/ Publish

SpecPrompt == InitAnalysis /\ [][NextPrompt]_vars

\* The text segments of a reply are nothing but whitespace.
Blank(content) ==
    \A i \in DOMAIN content :
        (content[i].type = "text" /\ "text" \in DOMAIN content[i]) =>
            \A j \in DOMAIN content[i].text :
                content[i].text[j] \in Whitespace

\* The analysis has returned.
Analysed == Called("bedrock_invoke_model") /\ "bedrock" \notin failed

\* C13: a reply whose text segments are blank gives the placeholder, and
\* the analysis text, in the handler, in the archived runbook, in the issue
\* body and in the chat message, is never empty and never None.
C13_BlankReplyGivesPlaceholder ==
    /\ Analysed =>
          /\ Blank(reply) => triage_md = Placeholder
          /\ triage_md \notin {"", None}
    /\ (s3_prefix \o "/runbook.md") \in DOMAIN s3_store =>
          s3_store[s3_prefix \o "/runbook.md"].Body \notin {"", None}
    /\ \A i \in github_issues : i.runbook \notin {"", None}
    /\ \A m \in slack_posts : m.excerpt \notin {"", None}

\* C13 witness: a reply of two segments, one of another type and one of
\* blank text, has gone through archive, issue and chat message.
C13_Witness ==
    /\ Len(reply) = 2
    /\ Blank(reply)
    /\ \E i \in DOMAIN reply :
          /\ "text" \in DOMAIN reply[i]
          /\ reply[i].text # <<>>
    /\ \E i \in DOMAIN reply : reply[i].type = "tool_use"
    /\ (s3_prefix \o "/runbook.md") \in DOMAIN s3_store
    /\ github_issues # {}
    /\ slack_posts # {}

\* C14: a serialized bundle longer than the cap is cut to its first
\* PromptCap characters followed by the marker; one at or under the cap is
\* passed whole and without marker.
C14_TruncatedAtCap ==
    Called("bedrock_invoke_model") =>
        /\ serialized.from = 0 /\ serialized.suffix = ""
        /\ IF serialized.to > PromptCap
           THEN safe = [from |-> 0, to |-> PromptCap, suffix |-> Marker]
           ELSE safe = serialized

\* C14 witness: a bundle over the cap was analysed and the request went on.
C14_Witness ==
    /\ Called("bedrock_invoke_model")
    /\ serialized.to > PromptCap
    /\ safe.suffix = Marker
    /\ response.status_code = 200

----------------------------------------------------------------------------
(* Two invocations.  The handler is a coroutine on one event loop: another *)
(* invocation runs only while this one is suspended, which it is before it *)
(* has read its body, at an HTTP call through httpx, and when it is over.  *)
(* The k8s client, boto3 and the functions that only call them never       *)
(* yield.  The other invocation is followed as far as it touches what the  *)
(* two could share: its incident id and the default Configuration of the   *)
(* kubernetes client.                                                      *)

Suspended ==
    \/ pc \in {"intake", "done", "failed"}
    \/ pc \in {"prom_cpu", "prom_mem"} /\ PromPodGiven
    \/ pc = "prom_ncpu" /\ PromNodeGiven
    \/ pc = "loki_query"
    \/ pc = "github" /\ GithubConfigured
    \/ pc = "slack" /\ SlackConfigured

other_frame == <<config_vars, prompt_vars, pc, handler_vars, k8s_vars, out,
                 response, raised_from, adapter, calls, failed, analysed,
                 world_vars>>

\* main.py 77-81 in the other invocation: its incident id is a fresh uuid4.
OtherIntake ==
    /\ other_pc = "idle"
    /\ Suspended
    /\ other_incident_id' \in UUIDs \ {incident_id}
    /\ other_pc' = "k8s_load"
    /\ UNCHANGED <<other_frame, k8s_default_configuration>>

\* _load_k8s in the other invocation.
OtherK8sLoad ==
    /\ other_pc = "k8s_load"
    /\ Suspended
    /\ \E ok \in BOOLEAN :
        k8s_default_configuration' =
            IF ok THEN "set_by_other_invocation"
                  ELSE k8s_default_configuration
    /\ other_pc' = "running"
    /\ UNCHANGED <<other_frame, other_incident_id>>

\* The rest of the other invocation.
OtherFinish ==
    /\ other_pc = "running"
    /\ Suspended
    /\ other_pc' = "done"
    /\ UNCHANGED <<other_frame, other_incident_id, k8s_default_configuration>>

Other == OtherIntake \/ OtherK8sLoad \/ OtherFinish

\* Both invocations for an alert with every backend and destination
\* configured.
InitTwo ==
    /\ Init
    /\ PROMETHEUS_URL = "set" /\ LOKI_URL = "set"
    /\ S3_BUCKET = "set" /\ GITHUB_TOKEN = "set" /\ GITHUB_REPO = "set"
    /\ SLACK_WEBHOOK_URL = "set"

NextTwo == Next \/ Other

SpecTwo == InitTwo /\ [][NextTwo]_vars

\* C11: the incident id of the invocation is the one in the bundle, in the
\* archived evidence document, in the archive keys of evidence and runbook,
\* in the issue body, in the chat message and in the result; and the other
\* invocation has another incident id.
C11_OneIncidentIdEverywhere ==
    LET prefix == "incidents/" \o CreatedAtKey \o "_" \o incident_id
    IN  /\ evidence_bundle # EmptyDict =>
              evidence_bundle["incident_id"] = incident_id
        /\ DOMAIN s3_store
              \subseteq {prefix \o "/evidence.json", prefix \o "/runbook.md"}
        /\ (prefix \o "/evidence.json") \in DOMAIN s3_store =>
              s3_store[prefix \o "/evidence.json"].Body["incident_id"]
                  = incident_id
        /\ \A i \in github_issues : i.incident_id = incident_id
        /\ \A m \in slack_posts : m.incident_id = incident_id
        /\ response.status_code = 200 => response.incident_id = incident_id
        /\ (incident_id # None /\ other_incident_id # None) =>
              incident_id # other_incident_id

\* C11 witness: both invocations have their incident id and this one has
\* archived, opened its issue, posted its message and answered.
C11_Witness ==
    /\ other_incident_id # None
    /\ DOMAIN s3_store # {}
    /\ github_issues # {}
    /\ slack_posts # {}
    /\ response.status_code = 200

\* C16: no step of an invocation writes anything process-global: the
\* default Configuration of the kubernetes client stays as it was when the
\* process started.
C16_NothingProcessGlobalWritten ==
    k8s_default_configuration = "unset"

=============================================================================
